---- MODULE Spec2Model ----
(***************************************************************************)
(* A model of the chunking and ingestion pipeline of codebridge-ai         *)
(* (src/src/embeddings.py).                                                *)
(*                                                                         *)
(* Strings are sequences of symbols.  Every symbol stands for one          *)
(* character, except the block symbols of Width below, which stand for a   *)
(* run of Width copies of one character that no other symbol uses, and     *)
(* DotTxt, which stands for the four characters ".txt".  Two strings are   *)
(* therefore equal exactly when their symbol sequences are equal, and      *)
(* len(), split(), join(), endswith() and replace() are computed on the    *)
(* symbol sequences as Python computes them on the characters.             *)
(***************************************************************************)
EXTENDS Integers, Sequences, FiniteSets, TLC

\* ------------------------------------------------------------------ bounds

\* Longest generated text, in symbols, of the chunk_text harness.
MaxTextLen == 10
\* Largest generated chunk_size of the chunk_text harness.
MaxChunkSize == 4
\* Largest generated overlap of the chunk_text harness.
MaxOverlap == 1
\* Most files the scraper saves in one behaviour.
MaxSaves == 2
\* Most process_documents calls in one behaviour.
MaxCalls == 2

\* The number of files of a directory whose collection is queried.
MaxDocs == 2
\* Most processes started in one behaviour.
MaxRuns == 2

\* ----------------------------------------------------------------- strings

NL == "\n"
DotTxt == ".txt"

\* The separator '\n\n' of split and join (embeddings.py lines 60, 70, 86).
SEP == <<NL, NL>>

\* Number of characters a symbol stands for.
Width(c) ==
    CASE c = "W" -> 300
      [] c = "V" -> 600
      [] c = DotTxt -> 4
      [] OTHER -> 1

\* len(s)
RECURSIVE StrLen(_)
StrLen(s) == IF s = <<>> THEN 0 ELSE Width(Head(s)) + StrLen(Tail(s))

\* s.split('\n\n'), scanning from position i with the current piece cur and
\* the pieces acc found so far: the leftmost separator is cut first and the
\* scan resumes after it.
RECURSIVE SplitFrom(_, _, _, _)
SplitFrom(s, i, cur, acc) ==
    IF i > Len(s) THEN Append(acc, cur)
    ELSE IF i < Len(s) /\ s[i] = NL /\ s[i + 1] = NL
         THEN SplitFrom(s, i + 2, <<>>, Append(acc, cur))
         ELSE SplitFrom(s, i + 1, Append(cur, s[i]), acc)

\* text.split('\n\n')
Split(s) == SplitFrom(s, 1, <<>>, <<>>)

\* '\n\n'.join(ps)
RECURSIVE Join(_)
Join(ps) ==
    IF ps = <<>> THEN <<>>
    ELSE IF Len(ps) = 1 THEN ps[1]
    ELSE ps[1] \o SEP \o Join(Tail(ps))

\* -------------------------------------------------------------- chunk_text

\* The test of line 68 with the buffered size left out.
ExceedsParagraphOnly(current_size, paragraph_size, chunk_size) ==
    paragraph_size > chunk_size

\* The test of line 68, one character too lenient.
ExceedsOffByOne(current_size, paragraph_size, chunk_size) ==
    current_size + paragraph_size > chunk_size + 1

\* The test that closes the current chunk (line 68).
Exceeds(current_size, paragraph_size, chunk_size) ==
    current_size + paragraph_size > chunk_size

\* The buffer a new chunk starts with (lines 73-79), keeping the first
\* paragraph instead of the last.
CarryFirst(current_chunk, overlap) ==
    IF overlap > 0 /\ Len(current_chunk) > 0
    THEN <<current_chunk[1]>>
    ELSE <<>>

\* The buffer a new chunk starts with (lines 73-79), keeping the last two
\* paragraphs.
CarryLastTwo(current_chunk, overlap) ==
    IF overlap > 0 /\ Len(current_chunk) > 1
    THEN SubSeq(current_chunk, Len(current_chunk) - 1, Len(current_chunk))
    ELSE IF overlap > 0 /\ Len(current_chunk) > 0
    THEN <<current_chunk[Len(current_chunk)]>>
    ELSE <<>>

\* The buffer a new chunk starts with (lines 73-79), keeping the last
\* paragraph only when it is no longer than overlap characters.
CarryWithinOverlap(current_chunk, overlap) ==
    IF overlap > 0 /\ Len(current_chunk) > 0
          /\ StrLen(current_chunk[Len(current_chunk)]) <= overlap
    THEN <<current_chunk[Len(current_chunk)]>>
    ELSE <<>>

\* The buffer a new chunk starts with (lines 73-79).
Carry(current_chunk, overlap) ==
    IF overlap > 0 /\ Len(current_chunk) > 0
    THEN <<current_chunk[Len(current_chunk)]>>
    ELSE <<>>

\* The flush of the last buffer (lines 85-86), left out.
FlushNever(chunks, current_chunk) == chunks

\* The flush of the last buffer (lines 85-86), skipped when the buffer
\* joins to the empty string.
FlushNonBlank(chunks, current_chunk) ==
    IF Join(current_chunk) # <<>> THEN Append(chunks, Join(current_chunk)) ELSE chunks

\* The flush of the last buffer (lines 85-86): a non-empty list is truthy.
Flush(chunks, current_chunk) ==
    IF current_chunk # <<>> THEN Append(chunks, Join(current_chunk)) ELSE chunks

\* The loop over the paragraphs (lines 65-82), from paragraph i on.
RECURSIVE ChunkLoop(_, _, _, _, _, _, _)
ChunkLoop(paragraphs, i, chunks, current_chunk, current_size, chunk_size, overlap) ==
    IF i > Len(paragraphs) THEN Flush(chunks, current_chunk)
    ELSE
      LET paragraph == paragraphs[i]
          paragraph_size == StrLen(paragraph)
          close == Exceeds(current_size, paragraph_size, chunk_size)
          chunks1 == IF close THEN Append(chunks, Join(current_chunk)) ELSE chunks
          chunk1 == IF close THEN Carry(current_chunk, overlap) ELSE current_chunk
          size1 == IF close
                   THEN (IF chunk1 = <<>> THEN 0 ELSE StrLen(chunk1[1]))
                   ELSE current_size
      IN  ChunkLoop(paragraphs, i + 1, chunks1, Append(chunk1, paragraph),
                    size1 + paragraph_size, chunk_size, overlap)

\* EmbeddingEngine.chunk_text(text, chunk_size, overlap)
chunk_text(t, chunk_size, ov) ==
    ChunkLoop(Split(t), 1, <<>>, <<>>, 0, chunk_size, ov)


\* ---------------------------------------------------------------- chunk ids

\* str(d) of one decimal digit.
Digit(d) ==
    CASE d = 0 -> "0" [] d = 1 -> "1" [] d = 2 -> "2" [] d = 3 -> "3"
      [] d = 4 -> "4" [] d = 5 -> "5" [] d = 6 -> "6" [] d = 7 -> "7"
      [] d = 8 -> "8" [] d = 9 -> "9"

\* str(n) of a natural number, as the f-string of line 118 formats it.
RECURSIVE Str(_)
Str(n) == IF n < 10 THEN <<Digit(n)>> ELSE Append(Str(n \div 10), Digit(n % 10))

\* filename.replace('.txt', ''): every occurrence is removed, not only the
\* extension.
RemoveTxt(filename) == SelectSeq(filename, LAMBDA c : c # DotTxt)

\* filename.endswith('.txt') (line 95)
EndsWithTxt(filename) == filename # <<>> /\ filename[Len(filename)] = DotTxt

\* The chunk id of line 118, numbered from 1.
ChunkIdOneBased(filename, i) == RemoveTxt(filename) \o <<"_">> \o Str(i + 1)

\* The chunk id of line 118: f"{filename.replace('.txt', '')}_{i}".
ChunkId(filename, i) == RemoveTxt(filename) \o <<"_">> \o Str(i)

\* ------------------------------------------------- the chunk_text harness

\* text, size, overlap: the arguments of the chunk_text call; chunks: what
\* it returned; pc: "call" before and "return" after it ("idle" when the
\* pipeline runs instead).
VARIABLES text, size, overlap, chunks, pc

cvars == <<text, size, overlap, chunks, pc>>

\* docs: the files of docs_dir, file name -> contents.
\* store: the records of the collection "code_docs", id -> record.
\* last: the lists built by the latest process_documents call (None before
\* the first), with the documents it read; prev: those of the call before.
\* result: how the latest process_documents call ended.
\* trace: the calls the latest process_documents call made to the embedding
\* model and to the collection, in order.
\* saves, calls: the number of files saved and of calls made so far.
\* order: the ids of the collection in the order they were inserted.
\* q: the latest query call, its arguments and its outcome (NoQuery before
\* the first).
VARIABLES docs, store, last, prev, result, trace, saves, calls, order, q

pvars == <<docs, store, last, prev, result, trace, saves, calls, order, q>>

\* exists: whether db_dir holds the collection "code_docs".
\* report: what the constructor of the running engine printed, "loaded" or
\* "created" ("none" while no process runs).
\* mpc: the position of the process that owns the engine: "off" (no process),
\* "ready" (between two calls on the engine), "in_add" (inside
\* collection.add).
\* adding: the outcome of the collection.add call in progress (None when no
\* add is in progress).
\* op: the latest operation on the engine.
\* runs: the number of processes started so far.
VARIABLES exists, report, mpc, adding, op, runs

evars == <<exists, report, mpc, adding, op, runs>>

\* store_results: the dictionary handed to the formatting loop of query
\* (None before any is).
\* formatted_results: the list the formatting loop built from it.
\* args_setup: whether main.py was started with --setup.
\* backend: whether the LLM provider answers and offers the model.
\* cpc: the position of main.py's main ("idle" while main.py does not run).
\* swift_docs: the files of the Swift scraper's output directory, file
\* name -> contents.
\* skip_scraping: whether run_swift_setup.py was started with --skip-scraping.
\* spc: the position of run_swift_setup.py's main ("idle" while it does not
\* run).
VARIABLES store_results, formatted_results, args_setup, backend, cpc,
          swift_docs, skip_scraping, spc

fmtvars == <<store_results, formatted_results>>
mainvars == <<args_setup, backend, cpc>>
swiftvars == <<swift_docs, skip_scraping, spc>>

svars == <<fmtvars, mainvars, swiftvars>>

vars == <<cvars, pvars, evars, svars>>

None == [none |-> TRUE]
NoQuery == [noquery |-> TRUE]
EmptyMap == [x \in {} |-> None]

\* One process whose engine is constructed and has reported rep, between
\* two calls.
EngineReady(rep) ==
    /\ exists = TRUE /\ report = rep /\ mpc = "ready"
    /\ adding = None /\ op = "construct" /\ runs = 1

\* The variables of the formatting loop while it is not exercised on its
\* own.
MainIdle ==
    /\ args_setup = FALSE /\ backend = FALSE /\ cpc = "idle"

SwiftIdle ==
    /\ swift_docs = EmptyMap /\ skip_scraping = FALSE /\ spc = "idle"

ScriptsIdle ==
    /\ store_results = None /\ formatted_results = <<>>
    /\ MainIdle
    /\ SwiftIdle

\* The pipeline's variables while only chunk_text is exercised.
PipelineIdle ==
    /\ docs = EmptyMap /\ store = EmptyMap
    /\ last = None /\ prev = None
    /\ result = "none" /\ trace = <<>> /\ saves = 0 /\ calls = 0
    /\ order = <<>> /\ q = NoQuery
    /\ EngineReady("created")

\* The harness's variables while the pipeline runs.
HarnessIdle ==
    /\ text = <<>> /\ size = 0 /\ overlap = 0 /\ chunks = <<>> /\ pc = "idle"

\* The symbols of the generated texts.
TextAlphabet == {NL, "a"}

RECURSIVE SeqsUpTo(_, _)
SeqsUpTo(S, n) ==
    IF n = 0 THEN {<<>>}
    ELSE LET shorter == SeqsUpTo(S, n - 1)
         IN  shorter \cup {Append(s, c) : s \in {x \in shorter : Len(x) = n - 1}, c \in S}

\* Doc A and Doc B of the example scenario.
DocA == <<"P", "a", "r", "a", "1", NL, NL, "P", "a", "r", "a", "2", NL, NL,
          "P", "a", "r", "a", "3">>
DocB == <<"D", "o", "c", "_", "B">>

Texts == SeqsUpTo(TextAlphabet, MaxTextLen) \cup {DocA, DocB}
Sizes == (0 .. MaxChunkSize) \cup {12, 500}
Overlaps == (0 .. MaxOverlap) \cup {50}

InitChunk ==
    /\ ScriptsIdle
    /\ text \in Texts
    /\ size \in Sizes
    /\ overlap \in Overlaps
    /\ chunks = <<>>
    /\ pc = "call"
    /\ PipelineIdle

\* One call chunk_text(text, size, overlap).
ChunkText ==
    /\ pc = "call"
    /\ chunks' = chunk_text(text, size, overlap)
    /\ pc' = "return"
    /\ UNCHANGED <<text, size, overlap>>
    /\ UNCHANGED <<pvars, evars, svars>>

NextChunk == ChunkText

SpecChunk == InitChunk /\ [][NextChunk]_vars

\* --------------------------------------------------- the ingestion pipeline

\* The defaults of chunk_text's chunk_size and overlap (line 45), which
\* process_documents takes by calling chunk_text(text) (line 114).
DefaultChunkSize == 500
DefaultOverlap == 50

\* The last URL segments the scraper names files after (scraper.py line 43).
UrlNames == {<<"a">>, <<"b">>, <<"a", DotTxt>>}

\* The page contents the scraper saves: an empty page, one short paragraph,
\* two paragraphs of 300 characters.
PageTexts == {<<>>, <<"a">>, <<"W", NL, NL, "W">>}

\* All orders of the set S.
RECURSIVE Perms(_)
Perms(S) ==
    IF S = {} THEN {<<>>}
    ELSE UNION {{<<x>> \o p : p \in Perms(S \ {x})} : x \in S}

Range(s) == {s[i] : i \in 1 .. Len(s)}

EmptyBatch == [ids |-> <<>>, texts |-> <<>>, metadatas |-> <<>>]

\* The body of the loop over the files (lines 108-121) with the chunk
\* numbered by its position in the whole batch.
AppendDocGlobalIndex(batch, filename, content) ==
    LET cs == chunk_text(content, DefaultChunkSize, DefaultOverlap)
        base == Len(batch.ids)
    IN  [ids |-> batch.ids \o [i \in 1 .. Len(cs) |-> ChunkId(filename, base + i - 1)],
         texts |-> batch.texts \o cs,
         metadatas |-> batch.metadatas \o
             [i \in 1 .. Len(cs) |-> [source |-> filename, chunk |-> base + i - 1]]]

\* The body of the loop over the files (lines 108-121): the file is read and
\* chunked, and every chunk i appends its id, text and metadata.
AppendDoc(batch, filename, content) ==
    LET cs == chunk_text(content, DefaultChunkSize, DefaultOverlap)
    IN  [ids |-> batch.ids \o [i \in 1 .. Len(cs) |-> ChunkId(filename, i - 1)],
         texts |-> batch.texts \o cs,
         metadatas |-> batch.metadatas \o
             [i \in 1 .. Len(cs) |-> [source |-> filename, chunk |-> i - 1]]]

\* The loop of lines 107-121 over doc_files, from file i on.
RECURSIVE BuildBatch(_, _, _, _)
BuildBatch(doc_files, i, d, batch) ==
    IF i > Len(doc_files) THEN batch
    ELSE BuildBatch(doc_files, i + 1, d, AppendDoc(batch, doc_files[i], d[doc_files[i]]))

\* self.model.encode of one text (line 125): the embedding is a function of
\* the text alone; its one coordinate here is the text's length.
Encode(t) == <<StrLen(t)>>

\* Whether collection.add rejects the batch: chromadb raises DuplicateIDError
\* when the ids of one call are not unique.
HasDuplicates(ids) == \E i, j \in 1 .. Len(ids) : i # j /\ ids[i] = ids[j]

\* The record of id in the batch.
BatchRecord(batch, id) ==
    LET i == CHOOSE k \in 1 .. Len(batch.ids) : batch.ids[k] = id
    IN  [embedding |-> Encode(batch.texts[i]), text |-> batch.texts[i],
         metadata |-> batch.metadatas[i]]

\* self.collection.add replacing the contents of the collection by the
\* batch.
CollectionAddReplaceAll(st, batch) ==
    [id \in Range(batch.ids) |-> BatchRecord(batch, id)]

\* self.collection.add (lines 129-134) of a batch of unique ids: chromadb's
\* add inserts the ids the collection does not hold and leaves a record that
\* already exists as it is.
CollectionAdd(st, batch) ==
    [id \in DOMAIN st \cup Range(batch.ids) |->
        IF id \in DOMAIN st THEN st[id] ELSE BatchRecord(batch, id)]

\* count() of the collection.
Count(st) == Cardinality(DOMAIN st)

\* The call self.model.encode(all_texts) of line 125.
EncodeCall(batch) == [op |-> "encode", texts |-> batch.texts]

\* The call self.collection.add(...) with the embeddings in the reverse
\* order of the texts.
AddCallEmbeddingsReversed(batch) ==
    [op |-> "add", ids |-> batch.ids,
     embeddings |-> [i \in 1 .. Len(batch.texts) |->
                        Encode(batch.texts[Len(batch.texts) + 1 - i])],
     metadatas |-> batch.metadatas, documents |-> batch.texts]

\* The call self.collection.add(...) of lines 129-134; embeddings is the
\* list encode returned, one vector per text in order.
AddCall(batch) ==
    [op |-> "add", ids |-> batch.ids,
     embeddings |-> [i \in 1 .. Len(batch.texts) |-> Encode(batch.texts[i])],
     metadatas |-> batch.metadatas, documents |-> batch.texts]

\* Lines 123-134 embedding and adding document by document: the records of
\* the first document are in the collection when a later encode raises.
EmbedAndAddPerDocument(st, batch, encoded) ==
    LET first == {i \in 1 .. Len(batch.ids) :
                     batch.metadatas[i].source = batch.metadatas[1].source}
        head == [ids |-> SubSeq(batch.ids, 1, Cardinality(first)),
                 texts |-> SubSeq(batch.texts, 1, Cardinality(first)),
                 metadatas |-> SubSeq(batch.metadatas, 1, Cardinality(first))]
    IN  IF ~encoded
        THEN [store |-> CollectionAdd(st, head), result |-> "embed_error",
              trace |-> <<EncodeCall(head), AddCall(head), EncodeCall(batch)>>]
        ELSE IF HasDuplicates(batch.ids)
        THEN [store |-> st, result |-> "add_error",
              trace |-> <<EncodeCall(head), AddCall(head)>>]
        ELSE [store |-> CollectionAdd(st, batch), result |-> "ok",
              trace |-> <<EncodeCall(head), AddCall(head)>>]

\* Lines 123-134 where re-adding an id the collection holds raises.
EmbedAndAddRejectExisting(st, batch, encoded) ==
    IF ~encoded
    THEN [store |-> st, result |-> "embed_error", trace |-> <<EncodeCall(batch)>>]
    ELSE IF HasDuplicates(batch.ids) \/ Range(batch.ids) \cap DOMAIN st # {}
    THEN [store |-> st, result |-> "add_error",
          trace |-> <<EncodeCall(batch), AddCall(batch)>>]
    ELSE [store |-> CollectionAdd(st, batch), result |-> "ok",
          trace |-> <<EncodeCall(batch), AddCall(batch)>>]

\* Lines 123-134: encode the whole batch, then add it in one call.  encode
\* raises when encoded is FALSE, and the call ends there; add raises on a
\* batch whose ids are not unique and writes nothing.
EmbedAndAdd(st, batch, encoded) ==
    IF ~encoded
    THEN [store |-> st, result |-> "embed_error", trace |-> <<EncodeCall(batch)>>]
    ELSE IF HasDuplicates(batch.ids)
    THEN [store |-> st, result |-> "add_error",
          trace |-> <<EncodeCall(batch), AddCall(batch)>>]
    ELSE [store |-> CollectionAdd(st, batch), result |-> "ok",
          trace |-> <<EncodeCall(batch), AddCall(batch)>>]

\* The ids a call inserted, in the order of the batch: those the collection
\* holds after the call and did not hold before.
NewIds(before, after, batch) ==
    LET fresh(i) == /\ batch.ids[i] \in DOMAIN after \ DOMAIN before
                    /\ \A j \in 1 .. i - 1 : batch.ids[j] # batch.ids[i]
        RECURSIVE Pick(_)
        Pick(i) == IF i > Len(batch.ids) THEN <<>>
                   ELSE (IF fresh(i) THEN <<batch.ids[i]>> ELSE <<>>) \o Pick(i + 1)
    IN  Pick(1)

Init ==
    /\ ScriptsIdle
    /\ HarnessIdle
    /\ PipelineIdle

\* DocumentationScraper.scrape_urls saves one page (scraper.py lines 43-49)
\* as "{filename}.txt", creating the file or replacing its contents.
SaveDoc(name, content) ==
    /\ pc = "idle"
    /\ saves < MaxSaves
    /\ LET filename == name \o <<DotTxt>>
       IN  docs' = [f \in DOMAIN docs \cup {filename} |->
                       IF f = filename THEN content ELSE docs[f]]
    /\ saves' = saves + 1
    /\ UNCHANGED <<store, last, prev, result, trace, calls, order, q>>
    /\ UNCHANGED <<cvars, evars, svars>>

\* EmbeddingEngine.process_documents (lines 90-136); os.listdir returns the
\* files in an arbitrary order, and model.encode may raise.
ProcessDocuments ==
    /\ pc = "idle"
    /\ calls < MaxCalls
    /\ \E listing \in Perms(DOMAIN docs) : \E encoded \in BOOLEAN :
         LET doc_files == SelectSeq(listing, EndsWithTxt)
             batch == BuildBatch(doc_files, 1, docs, EmptyBatch)
             out == EmbedAndAdd(store, batch, encoded)
         IN  IF doc_files = <<>>
             THEN /\ encoded
                  /\ result' = "no_docs"
                  /\ trace' = <<>>
                  /\ UNCHANGED <<store, last, prev, order>>
             ELSE /\ last' = [docs |-> docs, ids |-> batch.ids, texts |-> batch.texts,
                              metadatas |-> batch.metadatas,
                              result |-> out.result, count |-> Count(out.store)]
                  /\ prev' = last
                  /\ result' = out.result
                  /\ trace' = out.trace
                  /\ store' = out.store
                  /\ order' = order \o NewIds(store, out.store, batch)
    /\ calls' = calls + 1
    /\ UNCHANGED <<docs, saves, q>>
    /\ UNCHANGED <<cvars, evars, svars>>

Next ==
    \/ \E name \in UrlNames, content \in PageTexts : SaveDoc(name, content)
    \/ ProcessDocuments

Spec == Init /\ [][Next]_vars

\* -------------------------------------------------------------------- query

\* The default of query's n_results (line 138), which main.py passes too
\* (main.py line 85).
DefaultNResults == 3

\* The questions asked: their embeddings equal the embedding of a stored
\* one-character chunk, of a stored 300-character chunk, and of no chunk.
Questions == {<<"a">>, <<"W">>, <<"a", "a">>}

\* The values of n_results: the non-positive ones and 1 .. DefaultNResults.
NResults == (0 - 1) .. DefaultNResults

\* The distance of the collection's default space, squared L2.
Dist(u, v) == (u[1] - v[1]) * (u[1] - v[1])

Min(a, b) == IF a <= b THEN a ELSE b

\* The sequences of n distinct elements of S.
RECURSIVE KSeqs(_, _)
KSeqs(S, n) ==
    IF n = 0 THEN {<<>>}
    ELSE UNION {{<<x>> \o h : h \in KSeqs(S \ {x}, n - 1)} : x \in S}

\* self.collection.query (lines 153-156) for n_results > 0: the ids of the
\* min(n_results, count) nearest records, nearest first.  chromadb does not
\* say which of two records at the same distance comes first, so every
\* order of a tie is a possible answer.
CollectionQuery(st, qv, n) ==
    LET k == Min(n, Count(st))
        d(id) == Dist(st[id].embedding, qv)
    IN  {h \in KSeqs(DOMAIN st, k) :
            /\ \A i \in 1 .. k - 1 : d(h[i]) <= d(h[i + 1])
            /\ \A id \in DOMAIN st \ Range(h) : \A i \in 1 .. k : d(h[i]) <= d(id)}

\* The dictionary collection.query returns for the hits h: the inner lists
\* of 'ids', 'documents', 'metadatas' and 'distances' for the one query.
QueryResults(st, qv, h) ==
    [ids |-> h,
     documents |-> [i \in 1 .. Len(h) |-> st[h[i]].text],
     metadatas |-> [i \in 1 .. Len(h) |-> st[h[i]].metadata],
     distances |-> [i \in 1 .. Len(h) |-> Dist(st[h[i]].embedding, qv)]]

\* The formatting loop of query with every result given the distance of
\* the first hit.
FormatResultsFirstDistance(results) ==
    [i \in 1 .. Len(results.ids) |->
        [id |-> results.ids[i], text |-> results.documents[i],
         metadata |-> results.metadatas[i],
         distance |-> IF "distances" \in DOMAIN results
                      THEN results.distances[1] ELSE None]]

\* The formatting loop of query (lines 158-168): one entry per id of the
\* answer, in its order; the distance is that of the answer when the
\* dictionary has the key 'distances', and None when it has not.
FormatResults(results) ==
    [i \in 1 .. Len(results.ids) |->
        [id |-> results.ids[i], text |-> results.documents[i],
         metadata |-> results.metadatas[i],
         distance |-> IF "distances" \in DOMAIN results
                      THEN results.distances[i] ELSE None]]

\* The call self.model.encode(question) (line 150) and the call
\* self.collection.query(...) (lines 153-156).
EncodeQuestionCall(question) == [op |-> "encode", texts |-> <<question>>]
CollectionQueryCall(question, n) ==
    [op |-> "query", query_embeddings |-> <<Encode(question)>>, n_results |-> n]

\* query with n_results hard-coded to its default.
queryDefaultN(st, question, n, encoded) ==
    IF ~encoded
    THEN {[result |-> "embed_error", out |-> <<>>,
           trace |-> <<EncodeQuestionCall(question)>>]}
    ELSE IF n <= 0
    THEN {[result |-> "value_error", out |-> <<>>,
           trace |-> <<EncodeQuestionCall(question), CollectionQueryCall(question, n)>>]}
    ELSE {[result |-> "ok", out |-> FormatResults(QueryResults(st, Encode(question), h)),
           trace |-> <<EncodeQuestionCall(question),
                       CollectionQueryCall(question, DefaultNResults)>>] :
             h \in CollectionQuery(st, Encode(question), DefaultNResults)}

\* query where the collection raises when it holds no record.
queryRaisesOnEmpty(st, question, n, encoded) ==
    IF ~encoded
    THEN {[result |-> "embed_error", out |-> <<>>,
           trace |-> <<EncodeQuestionCall(question)>>]}
    ELSE IF n <= 0 \/ Count(st) = 0
    THEN {[result |-> "value_error", out |-> <<>>,
           trace |-> <<EncodeQuestionCall(question), CollectionQueryCall(question, n)>>]}
    ELSE {[result |-> "ok", out |-> FormatResults(QueryResults(st, Encode(question), h)),
           trace |-> <<EncodeQuestionCall(question), CollectionQueryCall(question, n)>>] :
             h \in CollectionQuery(st, Encode(question), n)}

\* EmbeddingEngine.query (lines 138-168), the set of its possible outcomes:
\* the question is encoded first (encode raises when encoded is FALSE), then
\* collection.query is called, which raises ValueError on n_results <= 0,
\* and its answer is formatted.
query(st, question, n, encoded) ==
    IF ~encoded
    THEN {[result |-> "embed_error", out |-> <<>>,
           trace |-> <<EncodeQuestionCall(question)>>]}
    ELSE IF n <= 0
    THEN {[result |-> "value_error", out |-> <<>>,
           trace |-> <<EncodeQuestionCall(question), CollectionQueryCall(question, n)>>]}
    ELSE {[result |-> "ok", out |-> FormatResults(QueryResults(st, Encode(question), h)),
           trace |-> <<EncodeQuestionCall(question), CollectionQueryCall(question, n)>>] :
             h \in CollectionQuery(st, Encode(question), n)}

\* The file names the scraper writes.
FileNames == {name \o <<DotTxt>> : name \in UrlNames}

\* The documents directories of at most MaxDocs files.
Dirs == UNION {[F -> PageTexts] : F \in {G \in SUBSET FileNames : Cardinality(G) <= MaxDocs}}

\* The collection and its insertion order after process_documents has run
\* once, without error in encode, on the directory d listed as listing.
Ingested(d, listing) ==
    LET doc_files == SelectSeq(listing, EndsWithTxt)
        batch == BuildBatch(doc_files, 1, d, EmptyBatch)
        after == IF doc_files = <<>> THEN EmptyMap
                 ELSE EmbedAndAdd(EmptyMap, batch, TRUE).store
    IN  [store |-> after, order |-> NewIds(EmptyMap, after, batch)]

\* An engine opened on a collection that an earlier run has filled.
InitQuery ==
    /\ ScriptsIdle
    /\ HarnessIdle
    /\ \E d \in Dirs : \E listing \in Perms(DOMAIN d) :
          /\ docs = d
          /\ store = Ingested(d, listing).store
          /\ order = Ingested(d, listing).order
    /\ last = None /\ prev = None /\ result = "none" /\ trace = <<>>
    /\ saves = 0 /\ calls = 0 /\ q = NoQuery
    /\ EngineReady("loaded")

\* One call of EmbeddingEngine.query.
Query(question, n) ==
    /\ pc = "idle"
    /\ \E encoded \in BOOLEAN : \E o \in query(store, question, n, encoded) :
          q' = [question |-> question, n |-> n, result |-> o.result,
                out |-> o.out, trace |-> o.trace]
    /\ UNCHANGED <<docs, store, last, prev, result, trace, saves, calls, order>>
    /\ UNCHANGED <<cvars, evars, svars>>

NextQuery == \E question \in Questions, n \in NResults : Query(question, n)

SpecQuery == InitQuery /\ [][NextQuery]_vars

\* ------------------------------------------- the formatting loop of query

\* The dictionary results without its key 'distances'.
WithoutDistances(results) ==
    [ids |-> results.ids, documents |-> results.documents,
     metadatas |-> results.metadatas]

\* The answers a collection can give to query: those of collection.query on
\* an ingested directory, and the same answers from a store that supplies
\* no distances.
StoreAnswers ==
    UNION {UNION {UNION {
        LET st == Ingested(d, listing).store
            rs == {QueryResults(st, Encode(question), h) :
                      h \in CollectionQuery(st, Encode(question), DefaultNResults)}
        IN  rs \cup {WithoutDistances(r) : r \in rs}
        : question \in Questions} : listing \in Perms(DOMAIN d)} : d \in Dirs}

\* An answer of the collection, about to be formatted.
InitFormat ==
    /\ HarnessIdle
    /\ PipelineIdle
    /\ store_results \in StoreAnswers
    /\ formatted_results = <<>>
    /\ MainIdle
    /\ SwiftIdle

\* The formatting loop of lines 158-168 runs on the answer.
Format ==
    /\ pc = "idle"
    /\ formatted_results' = FormatResults(store_results)
    /\ UNCHANGED <<store_results, mainvars, swiftvars>>
    /\ UNCHANGED <<cvars, pvars, evars>>

NextFormat == Format

SpecFormat == InitFormat /\ [][NextFormat]_vars

\* -------------------------------------------------- the engine's lifetimes

\* The entry "swift" of the documents directory "../data/docs": the output
\* directory "../data/docs/swift" of SwiftDocumentationScraper
\* (swift_scraper.py lines 15-17).  listdir returns it, and it is no '.txt'
\* file.
SwiftDir == <<"s", "w", "i", "f", "t">>

\* The directory d with the entry name added.
WithEntry(d, name) ==
    [f \in DOMAIN d \cup {name} |-> IF f = name THEN <<>> ELSE d[f]]

\* The directories an earlier process has ingested: no file or one.
PriorDirs == UNION {[F -> PageTexts] : F \in {{}} \cup {{f} : f \in FileNames}}

\* The documents directories a process finds: no file or one, with and
\* without the subdirectory.
EngineDirs == PriorDirs \cup {WithEntry(d, SwiftDir) : d \in PriorDirs}

\* The question asked of the engine.
EngineQuestions == {<<"a">>}

\* The constructor replacing whatever db_dir holds by a new collection.
OpenCollectionAlwaysCreate(ex, st) == [store |-> EmptyMap, report |-> "created"]

\* EmbeddingEngine.__init__ (lines 34-43): get_collection returns the
\* collection when db_dir holds it, with the records it holds; when it does
\* not, get_collection raises and create_collection makes an empty one.  The
\* print of either branch reports which happened.
OpenCollection(ex, st) ==
    IF ex THEN [store |-> st, report |-> "loaded"]
    ELSE [store |-> EmptyMap, report |-> "created"]

\* process_documents without the early return of lines 97-99.
process_documentsNoEarlyReturn(st, d, listing, encoded) ==
    LET doc_files == SelectSeq(listing, EndsWithTxt)
        batch == BuildBatch(doc_files, 1, d, EmptyBatch)
        out == EmbedAndAdd(st, batch, encoded)
    IN  [store |-> out.store, result |-> out.result, trace |-> out.trace,
         batch |-> batch]

\* EmbeddingEngine.process_documents (lines 90-136) on the directory d that
\* listdir gives as listing: with no '.txt' file it prints and returns
\* (lines 97-99); otherwise it builds the batch, encodes it and adds it.
process_documents(st, d, listing, encoded) ==
    LET doc_files == SelectSeq(listing, EndsWithTxt)
        batch == BuildBatch(doc_files, 1, d, EmptyBatch)
        out == EmbedAndAdd(st, batch, encoded)
    IN  IF doc_files = <<>>
        THEN [store |-> st, result |-> "no_docs", trace |-> <<>>, batch |-> EmptyBatch]
        ELSE [store |-> out.store, result |-> out.result, trace |-> out.trace,
              batch |-> batch]

\* The collection while collection.add of the batch is under way: the
\* first record is written, the others are not yet.
PartlyAdded(st, batch) ==
    IF batch.ids = <<>> THEN st
    ELSE CollectionAdd(st, [ids |-> SubSeq(batch.ids, 1, 1),
                            texts |-> SubSeq(batch.texts, 1, 1),
                            metadatas |-> SubSeq(batch.metadatas, 1, 1)])

\* The caller going on while collection.add works in the background.
DuringAddDetached == "ready"

\* The position of the process while collection.add (lines 129-134) runs:
\* the call is synchronous, the process is inside it until it returns.
DuringAdd == "in_add"

\* A documents directory and a db_dir as an earlier process left them, and
\* no process running.
InitEngine ==
    /\ ScriptsIdle
    /\ HarnessIdle
    /\ docs \in EngineDirs
    /\ exists \in BOOLEAN
    /\ IF exists
       THEN \E d \in PriorDirs : \E listing \in Perms(DOMAIN d) :
               /\ store = Ingested(d, listing).store
               /\ order = Ingested(d, listing).order
       ELSE store = EmptyMap /\ order = <<>>
    /\ last = None /\ prev = None /\ result = "none" /\ trace = <<>>
    /\ saves = 0 /\ calls = 0 /\ q = NoQuery
    /\ report = "none" /\ mpc = "off" /\ adding = None /\ op = "none" /\ runs = 0

\* A process starts and constructs its EmbeddingEngine (main.py line 36,
\* run_swift_setup.py line 65, embeddings.py line 173).
Construct ==
    /\ mpc = "off"
    /\ runs < MaxRuns
    /\ LET o == OpenCollection(exists, store)
       IN  /\ store' = o.store
           /\ report' = o.report
           /\ order' = IF exists THEN order ELSE <<>>
    /\ exists' = TRUE
    /\ mpc' = "ready"
    /\ op' = "construct"
    /\ runs' = runs + 1
    /\ UNCHANGED <<docs, last, prev, result, trace, saves, calls, q, adding>>
    /\ UNCHANGED <<cvars, svars>>

\* process_documents is called (main.py line 42, run_swift_setup.py line
\* 66, embeddings.py line 174) and runs until it returns, raises, or has
\* entered collection.add.  An exception ends the process: main.py does not
\* catch it, run_swift_setup.py catches it and returns.
BeginProcess ==
    /\ mpc = "ready"
    /\ adding = None
    /\ calls < MaxCalls
    /\ \E listing \in Perms(DOMAIN docs) : \E encoded \in BOOLEAN :
         LET out == process_documents(store, docs, listing, encoded)
         IN  \/ /\ out.result = "no_docs"
                /\ encoded
                /\ result' = "no_docs" /\ trace' = out.trace
                /\ store' = out.store
                /\ mpc' = "ready"
                /\ op' = "process"
                /\ UNCHANGED <<adding, last, prev>>
             \/ /\ out.result \in {"embed_error", "add_error"}
                /\ result' = out.result /\ trace' = out.trace
                /\ store' = out.store
                /\ last' = [docs |-> docs, ids |-> out.batch.ids,
                            texts |-> out.batch.texts,
                            metadatas |-> out.batch.metadatas,
                            result |-> out.result, count |-> Count(out.store)]
                /\ prev' = last
                /\ mpc' = "off"
                /\ op' = "process"
                /\ UNCHANGED adding
             \/ /\ out.result = "ok"
                /\ adding' = out
                /\ store' = PartlyAdded(store, out.batch)
                /\ result' = "adding" /\ trace' = out.trace
                /\ mpc' = DuringAdd
                /\ op' = "add"
                /\ UNCHANGED <<last, prev>>
    /\ calls' = calls + 1
    /\ UNCHANGED <<docs, saves, order, q, exists, report, runs>>
    /\ UNCHANGED <<cvars, svars>>

\* collection.add returns: the whole batch is in the collection, and
\* process_documents prints and returns (lines 135-136).
FinishAdd ==
    /\ adding # None
    /\ store' = adding.store
    /\ order' = order \o NewIds(store, adding.store, adding.batch)
    /\ last' = [docs |-> docs, ids |-> adding.batch.ids, texts |-> adding.batch.texts,
                metadatas |-> adding.batch.metadatas,
                result |-> "ok", count |-> Count(adding.store)]
    /\ prev' = last
    /\ result' = "ok"
    /\ adding' = None
    /\ mpc' = IF mpc = "off" THEN "off" ELSE "ready"
    /\ op' = IF mpc = DuringAdd THEN "added" ELSE op
    /\ UNCHANGED <<docs, trace, saves, calls, q, exists, report, runs>>
    /\ UNCHANGED <<cvars, svars>>

\* The engine's query is called with the default n_results (main.py line
\* 85, embeddings.py line 177); an exception ends the process.
EngineQuery(question) ==
    /\ mpc = "ready"
    /\ \E encoded \in BOOLEAN :
         \E o \in query(store, question, DefaultNResults, encoded) :
            /\ q' = [question |-> question, n |-> DefaultNResults,
                     result |-> o.result, out |-> o.out, trace |-> o.trace]
            /\ mpc' = IF o.result = "ok" THEN "ready" ELSE "off"
    /\ op' = "query"
    /\ UNCHANGED <<docs, store, last, prev, result, trace, saves, calls, order>>
    /\ UNCHANGED <<exists, report, adding, runs>>
    /\ UNCHANGED <<cvars, svars>>

\* collection.count() is read (main.py line 53).
EngineCount ==
    /\ mpc = "ready"
    /\ op' = "count"
    /\ UNCHANGED pvars
    /\ UNCHANGED <<exists, report, mpc, adding, runs>>
    /\ UNCHANGED <<cvars, svars>>

\* The process ends (main.py line 44, the end of the scripts).
Exit ==
    /\ mpc = "ready"
    /\ adding = None
    /\ mpc' = "off"
    /\ op' = "exit"
    /\ UNCHANGED pvars
    /\ UNCHANGED <<exists, report, adding, runs>>
    /\ UNCHANGED <<cvars, svars>>

NextEngine ==
    \/ Construct
    \/ BeginProcess
    \/ FinishAdd
    \/ \E question \in EngineQuestions : EngineQuery(question)
    \/ EngineCount
    \/ Exit

SpecEngine == InitEngine /\ [][NextEngine]_vars

\* ------------------------------------------------------- main.py's main

\* The methods class LLMEngine defines (llm.py lines 14-260).
LLMEngineMethods ==
    {"__init__", "check_connection", "detect_query_type", "get_system_prompt",
     "generate_response", "generate_response_for_xcode_error"}

\* main after the engines are constructed (main.py lines 39-66), as the
\* branch it takes: with --setup it runs the setup; otherwise line 47 calls
\* llm_engine.check_ollama(), which raises AttributeError when the class has
\* no such method; a failed check returns (lines 48-49), a count() of 0
\* returns (lines 54-57), and otherwise main enters the loop.
MainBranch(setup, methods, backend_ok, count) ==
    IF setup THEN "setup"
    ELSE IF "check_ollama" \notin methods THEN "attribute_error"
    ELSE IF ~backend_ok THEN "backend_down"
    ELSE IF count = 0 THEN "no_documents"
    ELSE "loop"

\* main.py is started, with or without --setup, on a documents directory
\* and a db_dir as an earlier process left them.
InitMain ==
    /\ HarnessIdle
    /\ docs \in EngineDirs
    /\ exists \in BOOLEAN
    /\ IF exists
       THEN \E d \in PriorDirs : \E listing \in Perms(DOMAIN d) :
               /\ store = Ingested(d, listing).store
               /\ order = Ingested(d, listing).order
       ELSE store = EmptyMap /\ order = <<>>
    /\ last = None /\ prev = None /\ result = "none" /\ trace = <<>>
    /\ saves = 0 /\ calls = 0 /\ q = NoQuery
    /\ report = "none" /\ mpc = "off" /\ adding = None /\ op = "none" /\ runs = 0
    /\ store_results = None /\ formatted_results = <<>>
    /\ args_setup \in BOOLEAN
    /\ backend \in BOOLEAN
    /\ cpc = "start"
    /\ SwiftIdle

\* The engines are constructed (main.py lines 36-37).
MainEngines ==
    /\ cpc = "start"
    /\ LET o == OpenCollection(exists, store)
       IN  /\ store' = o.store
           /\ report' = o.report
    /\ exists' = TRUE
    /\ mpc' = "ready"
    /\ op' = "construct"
    /\ runs' = runs + 1
    /\ cpc' = "engines"
    /\ UNCHANGED <<docs, last, prev, result, trace, saves, calls, order, q, adding>>
    /\ UNCHANGED <<fmtvars, args_setup, backend, swiftvars>>
    /\ UNCHANGED cvars

\* main from line 39 to the point where it returns, raises or enters the
\* loop; the setup branch runs process_documents (line 42).
MainRun ==
    /\ cpc = "engines"
    /\ LET branch == MainBranch(args_setup, LLMEngineMethods, backend, Count(store))
       IN  IF branch = "setup"
           THEN \E listing \in Perms(DOMAIN docs) : \E encoded \in BOOLEAN :
                  LET out == process_documents(store, docs, listing, encoded)
                  IN  /\ out.result = "no_docs" => encoded
                      /\ store' = out.store
                      /\ order' = order \o NewIds(store, out.store, out.batch)
                      /\ result' = out.result
                      /\ trace' = out.trace
                      /\ calls' = calls + 1
                      /\ op' = "process"
                      /\ cpc' = IF out.result \in {"ok", "no_docs"}
                                THEN "setup_done" ELSE "raised"
           ELSE /\ cpc' = branch
                /\ UNCHANGED <<store, order, result, trace, calls, op>>
    /\ mpc' = "off"
    /\ UNCHANGED <<docs, last, prev, saves, q, exists, report, adding, runs>>
    /\ UNCHANGED <<fmtvars, args_setup, backend, swiftvars>>
    /\ UNCHANGED cvars

NextMain ==
    \/ MainEngines
    \/ MainRun

SpecMain == InitMain /\ [][NextMain]_vars

\* ------------------------------------------- run_swift_setup.py's main

\* The entries os.listdir(self.docs_dir) returns (embeddings.py line 95):
\* those of the directory itself, not the files of a subdirectory.
ListDir(d, sub) == DOMAIN d

\* run_swift_setup.py is started; the Swift scraper's output directory
\* holds what an earlier run of swift_scraper.py saved there.
InitSwift ==
    /\ HarnessIdle
    /\ docs \in EngineDirs
    /\ swift_docs \in IF SwiftDir \in DOMAIN docs THEN PriorDirs ELSE {EmptyMap}
    /\ exists \in BOOLEAN
    /\ IF exists
       THEN \E d \in PriorDirs : \E listing \in Perms(DOMAIN d) :
               /\ store = Ingested(d, listing).store
               /\ order = Ingested(d, listing).order
       ELSE store = EmptyMap /\ order = <<>>
    /\ last = None /\ prev = None /\ result = "none" /\ trace = <<>>
    /\ saves = 0 /\ calls = 0 /\ q = NoQuery
    /\ report = "none" /\ mpc = "off" /\ adding = None /\ op = "none" /\ runs = 0
    /\ store_results = None /\ formatted_results = <<>>
    /\ MainIdle
    /\ skip_scraping \in BOOLEAN
    /\ spc = "start"

\* Step 1 (run_swift_setup.py lines 44-60): unless skipped, the scraper is
\* constructed, which creates its output directory, and src.swift_scraper
\* is imported; the module is imported as src.swift_scraper, so its
\* __main__ section does not run and no page is saved.
SwiftScrape ==
    /\ spc = "start"
    /\ docs' = IF skip_scraping THEN docs ELSE WithEntry(docs, SwiftDir)
    /\ spc' = "scraped"
    /\ UNCHANGED <<store, last, prev, result, trace, saves, calls, order, q>>
    /\ UNCHANGED <<swift_docs, skip_scraping>>
    /\ UNCHANGED <<cvars, evars, fmtvars, mainvars>>

\* Step 2 (run_swift_setup.py lines 63-70): the engine is constructed on
\* the default docs_dir and process_documents runs; an exception makes
\* main print it and return, otherwise main prints "Setup complete".
SwiftProcess ==
    /\ spc = "scraped"
    /\ \E listing \in Perms(ListDir(docs, swift_docs)) : \E encoded \in BOOLEAN :
         LET o == OpenCollection(exists, store)
             out == process_documents(o.store, docs, listing, encoded)
         IN  /\ out.result = "no_docs" => encoded
             /\ report' = o.report
             /\ store' = out.store
             /\ order' = (IF exists THEN order ELSE <<>>)
                              \o NewIds(o.store, out.store, out.batch)
             /\ result' = out.result
             /\ trace' = out.trace
             /\ spc' = IF out.result \in {"ok", "no_docs"} THEN "complete" ELSE "failed"
    /\ exists' = TRUE
    /\ op' = "process"
    /\ runs' = runs + 1
    /\ calls' = calls + 1
    /\ UNCHANGED <<docs, last, prev, saves, q, mpc, adding>>
    /\ UNCHANGED <<swift_docs, skip_scraping>>
    /\ UNCHANGED <<cvars, fmtvars, mainvars>>

NextSwift ==
    \/ SwiftScrape
    \/ SwiftProcess

SpecSwift == InitSwift /\ [][NextSwift]_vars

\* ------------------------------------------------ properties of chunk_text

\* The paragraphs of the text of the call.
Paragraphs == Split(text)

Returned == pc = "return"

Last(s) == s[Len(s)]

\* The chunks k.. are joins of consecutive whole paragraphs that continue at
\* paragraph lo and end with the last paragraph; a chunk after the first may
\* start with the paragraph lo - 1 carried over from the chunk before it.
RECURSIVE Decomposes(_, _)
Decomposes(k, lo) ==
    IF k > Len(chunks) THEN lo = Len(Paragraphs) + 1
    ELSE \E carry \in {0, 1} : \E hi \in (lo - 1) .. Len(Paragraphs) :
            /\ carry = 1 => (k > 1 /\ overlap > 0 /\ lo > 1)
            /\ chunks[k] = Join(SubSeq(Paragraphs, lo - carry, hi))
            /\ Decomposes(k + 1, hi + 1)

\* C1: every chunk is a join of whole paragraphs of the text, and the
\* chunks' paragraphs, in order and without the paragraph each chunk carries
\* over from the one before it, are exactly the paragraphs of the text.
C1_ParagraphIntegrity == Returned => Decomposes(1, 1)

C1_Witness ==
    /\ Returned /\ overlap > 0 /\ Len(chunks) >= 3
    /\ \E k \in 1 .. Len(chunks) : Len(Split(chunks[k])) >= 2

\* C2: with overlap > 0 and at least two chunks, the last paragraph of each
\* chunk is the first paragraph of the next chunk.
C2_OverlapCorrect ==
    (Returned /\ overlap > 0 /\ Len(chunks) >= 2) =>
        \A k \in 1 .. Len(chunks) - 1 :
            Last(Split(chunks[k])) = Head(Split(chunks[k + 1]))

\* C3: the empty text yields zero chunks.
C3_EmptyTextNoChunks == (Returned /\ text = <<>>) => chunks = <<>>

\* The chunk an oversized paragraph j ends up in: on its own, or behind the
\* paragraph carried over from the chunk before.
OversizedChunk(j) ==
    IF overlap > 0 /\ j > 1
    THEN Join(<<Paragraphs[j - 1], Paragraphs[j]>>)
    ELSE Paragraphs[j]

Oversized(j) == StrLen(Paragraphs[j]) > size

\* C4 as claimed: a paragraph longer than chunk_size is a chunk of its own.
C4_OversizedAlone ==
    Returned =>
        \A j \in 1 .. Len(Paragraphs) :
            Oversized(j) => \E k \in 1 .. Len(chunks) : chunks[k] = Paragraphs[j]

\* C4 as amended: a paragraph longer than chunk_size shares its chunk with
\* no other newly added paragraph: it is a chunk of its own when overlap = 0
\* or it is the first paragraph, and otherwise its chunk is exactly the
\* carried-over previous paragraph followed by it.
C4_OversizedNoOtherNew ==
    Returned =>
        \A j \in 1 .. Len(Paragraphs) :
            Oversized(j) => \E k \in 1 .. Len(chunks) : chunks[k] = OversizedChunk(j)

C4_Witness ==
    /\ Returned /\ overlap > 0 /\ Len(Paragraphs) >= 3
    /\ Oversized(2) /\ ~Oversized(1) /\ ~Oversized(3)

NoneOversized == \A j \in 1 .. Len(Paragraphs) : ~Oversized(j)

\* The characters of a chunk without its blank-line separators.
ContentLen(c) == StrLen(c) - StrLen(SEP) * (Len(Split(c)) - 1)

\* C5 as claimed: when no paragraph is longer than chunk_size, every chunk
\* is at most chunk_size characters long.
C5_ChunkWithinSize ==
    (Returned /\ NoneOversized) =>
        \A k \in 1 .. Len(chunks) : StrLen(chunks[k]) <= size

\* C5 as amended: when no paragraph is longer than chunk_size, the
\* paragraphs of every chunk total at most chunk_size characters, the
\* separators not counted; only a chunk made of the carried-over paragraph
\* and one new paragraph may exceed that, and totals at most 2 * chunk_size.
C5_ContentWithinSize ==
    (Returned /\ NoneOversized) =>
        \A k \in 1 .. Len(chunks) :
            \/ ContentLen(chunks[k]) <= size
            \/ /\ overlap > 0 /\ k > 1
               /\ Len(Split(chunks[k])) = 2
               /\ ContentLen(chunks[k]) <= 2 * size

C5_Witness ==
    /\ Returned /\ NoneOversized /\ overlap > 0 /\ Len(chunks) >= 2
    /\ \E k \in 2 .. Len(chunks) : ContentLen(chunks[k]) > size

FileA == <<"A", DotTxt>>
FileB == <<"B", DotTxt>>

\* The ids process_documents gives the chunks when they are those of file f.
IdsOf(f) == [k \in 1 .. Len(chunks) |-> ChunkId(f, k - 1)]

\* C6 as claimed: Doc A with target size 12 and overlap > 0 yields the three
\* chunks A_0, A_1, A_2, and the one-paragraph Doc B yields the chunk B_0.
C6_ExampleThreeChunks ==
    /\ (Returned /\ text = DocA /\ size = 12 /\ overlap > 0) =>
           IdsOf(FileA) = <<<<"A", "_", "0">>, <<"A", "_", "1">>, <<"A", "_", "2">>>>
    /\ (Returned /\ text = DocB /\ size = 12 /\ overlap > 0) =>
           IdsOf(FileB) = <<<<"B", "_", "0">>>>

Para(d) == <<"P", "a", "r", "a", d>>

\* C6 as amended: Doc A with target size 12 and overlap > 0 yields exactly
\* the two chunks A_0 = Para1 + Para2 and A_1 = Para2 + Para3 (two
\* 5-character paragraphs do not exceed 12), and Doc B yields the chunk B_0.
C6_ExampleTwoChunks ==
    /\ (Returned /\ text = DocA /\ size = 12 /\ overlap > 0) =>
           /\ IdsOf(FileA) = <<<<"A", "_", "0">>, <<"A", "_", "1">>>>
           /\ chunks = <<Join(<<Para("1"), Para("2")>>), Join(<<Para("2"), Para("3")>>)>>
    /\ (Returned /\ text = DocB /\ size = 12 /\ overlap > 0) =>
           /\ IdsOf(FileB) = <<<<"B", "_", "0">>>>
           /\ chunks = <<DocB>>

C6_Witness == Returned /\ text = DocA /\ size = 12 /\ overlap > 0

\* C8: for a non-empty text the last chunk ends with the last paragraph of
\* the text.
C8_FinalFlush ==
    (Returned /\ text # <<>>) =>
        /\ chunks # <<>>
        /\ Last(Split(Last(chunks))) = Last(Paragraphs)

C8_Witness ==
    /\ Returned /\ text # <<>> /\ Len(chunks) >= 2
    /\ StrLen(Last(chunks)) < size

\* ---------------------------------------- properties of process_documents

\* C9: the chunk ids one process_documents call builds are pairwise
\* distinct.
C9_IdsDistinct == last # None => ~HasDuplicates(last.ids)

\* The (id, text) pairs a call built.
Pairs(b) == {<<b.ids[i], b.texts[i]>> : i \in 1 .. Len(b.ids)}

\* C10: two process_documents calls over the same documents with unchanged
\* contents build the same set of (id, text) pairs, whatever order the
\* directory listing returned the files in.
C10_IdsStable ==
    (last # None /\ prev # None /\ last.docs = prev.docs) =>
        Pairs(last) = Pairs(prev)

C10_Witness ==
    /\ last # None /\ prev # None /\ last.docs = prev.docs
    /\ Cardinality(DOMAIN last.docs) >= 2
    /\ last.ids # prev.ids
    /\ \E i \in 1 .. Len(last.metadatas) : last.metadatas[i].chunk >= 1

\* Two consecutive calls read the same documents with the same contents, and
\* the first one succeeded.
SecondRun ==
    /\ last # None /\ prev # None
    /\ prev.docs = last.docs
    /\ prev.result = "ok"

\* C11: a second process_documents call over the same documents, after a
\* first call that succeeded, succeeds as well (unless the embedding model
\* raises) and leaves count() at its value after the first call.
C11_Idempotent ==
    (SecondRun /\ last.result # "embed_error") =>
        /\ last.result = "ok"
        /\ last.count = prev.count

C11_Witness ==
    /\ SecondRun /\ last.result = "ok"
    /\ last.count >= 2 /\ Count(store) = last.count

\* C12: after a successful call the collection holds, for every id of the
\* call's batch, the text, metadata and vector of that call.
C12_Overwrites ==
    (last # None /\ result = "ok") =>
        \A i \in 1 .. Len(last.ids) :
            store[last.ids[i]] = [embedding |-> Encode(last.texts[i]),
                                  text |-> last.texts[i],
                                  metadata |-> last.metadatas[i]]

\* C13: a process_documents call in which the embedding step fails leaves
\* the collection as it was and makes no add call.
C13_EmbedFailureAtomic ==
    [][(calls' = calls + 1 /\ result' = "embed_error") =>
          /\ store' = store
          /\ \A k \in 1 .. Len(trace') : trace'[k].op # "add"]_vars

C13_Witness ==
    /\ result = "embed_error" /\ calls = 2
    /\ Count(store) > 0
    /\ \E i \in 1 .. Len(last.ids) : last.ids[i] \notin DOMAIN store

\* The latest call read at least one document.
RanWithDocs == result \in {"ok", "add_error", "embed_error"}

\* C14: a process_documents call that reads at least one document chunks
\* all of them into one batch, calls encode exactly once, on the texts of
\* the whole batch, and then (unless encode raised) calls add exactly once,
\* with all ids, texts, metadatas and one embedding per text.
C14_OneBatch ==
    RanWithDocs =>
        /\ {last.metadatas[i].source : i \in 1 .. Len(last.metadatas)}
               = {f \in DOMAIN last.docs : EndsWithTxt(f)}
        /\ trace[1] = [op |-> "encode", texts |-> last.texts]
        /\ result = "embed_error" => Len(trace) = 1
        /\ result # "embed_error" =>
               /\ Len(trace) = 2
               /\ trace[2].op = "add"
               /\ trace[2].ids = last.ids
               /\ trace[2].documents = last.texts
               /\ trace[2].metadatas = last.metadatas
               /\ Len(trace[2].embeddings) = Len(last.ids)

C14_Witness ==
    /\ result = "ok" /\ Len(trace) = 2
    /\ Cardinality(DOMAIN last.docs) >= 2
    /\ Len(last.ids) >= 3

\* ------------------------------------------------------ properties of query

\* The latest query call returned an answer.
Answered == q # NoQuery /\ q.result = "ok"

\* The results are in non-decreasing order of distance.
Sorted(out) == \A i \in 1 .. Len(out) - 1 : out[i].distance <= out[i + 1].distance

\* The position of id in the insertion order.
Pos(id) == CHOOSE i \in 1 .. Len(order) : order[i] = id

\* The stored records whose vector equals the question's vector.
EqualVector == {id \in DOMAIN store : store[id].embedding = Encode(q.question)}

\* C15 as stated: a query with k > 0 returns at most k results in
\* non-decreasing distance order, results at the same distance are in
\* insertion order, and a stored record whose vector equals the query's
\* vector is returned first with distance 0.
C15_NearestFirstInsertionTies ==
    Answered =>
        /\ Len(q.out) <= q.n
        /\ Sorted(q.out)
        /\ \A i, j \in 1 .. Len(q.out) :
              (i < j /\ q.out[i].distance = q.out[j].distance)
                  => Pos(q.out[i].id) < Pos(q.out[j].id)
        /\ \A id \in EqualVector : q.out[1].id = id /\ q.out[1].distance = 0

\* C15 amended: a query with k > 0 returns at most k results in
\* non-decreasing distance order, and when some stored record's vector
\* equals the query's vector the first result is such a record, with
\* distance 0.
C15_NearestFirst ==
    Answered =>
        /\ Len(q.out) <= q.n
        /\ Sorted(q.out)
        /\ EqualVector # {} => (q.out[1].id \in EqualVector /\ q.out[1].distance = 0)

C15_Witness ==
    /\ Answered
    /\ q.n = 2 /\ Count(store) >= 3 /\ Len(q.out) = 2
    /\ q.out[1].distance = 0 /\ q.out[2].distance > 0

\* C16: a query with k > 0 on an empty collection, the question embedded
\* without error, returns the empty sequence and raises no error.
C16_EmptyStoreEmptyAnswer ==
    (q # NoQuery /\ Count(store) = 0 /\ q.n > 0 /\ q.result # "embed_error")
        => (q.result = "ok" /\ q.out = <<>>)

C16_Witness ==
    /\ q # NoQuery /\ Count(store) = 0 /\ q.n = DefaultNResults
    /\ q.result = "ok" /\ q.out = <<>> /\ Len(q.trace) = 2

\* C17: a query with a non-positive k fails with the invalid-argument error
\* before the embedder or the collection is used.
C17_RejectedBeforeUse ==
    (q # NoQuery /\ q.n <= 0) => (q.result = "value_error" /\ q.trace = <<>>)

\* ------------------------------------- properties of the engine's lifetimes

\* C18: the constructor of a new engine loads the collection that db_dir
\* holds, with the records it held when the constructor was called, and
\* creates an empty collection when db_dir holds none; it reports which
\* of the two it did; and the end of a process leaves the collection as it
\* is.
C18_Persistent ==
    [][/\ (runs' = runs + 1) =>
            /\ exists'
            /\ IF exists
               THEN store' = store /\ report' = "loaded"
               ELSE store' = EmptyMap /\ Count(store') = 0 /\ report' = "created"
       /\ (mpc' = "off") => (store' = store /\ exists' = exists)]_vars

\* A second process has loaded the records that the first one ingested.
C18_Witness ==
    /\ runs = 2 /\ op = "construct" /\ report = "loaded"
    /\ last # None /\ last.result = "ok"
    /\ Count(store) >= 2 /\ Count(store) = last.count

\* The '.txt' entries of the documents directory.
Ingestible == {f \in DOMAIN docs : EndsWithTxt(f)}

\* C19: when the documents directory holds no '.txt' file, a
\* process_documents call returns normally, calls neither the embedding
\* model nor the collection's add, and leaves the collection unchanged.
C19_NoDocsNoEffect ==
    [][(calls' = calls + 1 /\ Ingestible = {}) =>
            /\ result' = "no_docs"
            /\ mpc' = "ready"
            /\ trace' = <<>>
            /\ adding' = None
            /\ store' = store]_vars

C19_Witness ==
    /\ op = "process" /\ result = "no_docs" /\ mpc = "ready"
    /\ DOMAIN docs # {} /\ Ingestible = {}
    /\ Count(store) > 0

Formatted == store_results # None /\ formatted_results # <<>>

\* C21: query returns one result per hit of the store's answer, in the
\* answer's order, the i-th result carrying the id, text, metadata and
\* distance of the i-th hit; the distance is a non-negative number when the
\* store supplies distances, and None exactly when it supplies none.
C21_ResultPerHit ==
    Formatted =>
        /\ Len(formatted_results) = Len(store_results.ids)
        /\ \A i \in 1 .. Len(formatted_results) :
              /\ DOMAIN formatted_results[i] = {"id", "text", "metadata", "distance"}
              /\ formatted_results[i].id = store_results.ids[i]
              /\ formatted_results[i].text = store_results.documents[i]
              /\ formatted_results[i].metadata = store_results.metadatas[i]
              /\ IF "distances" \in DOMAIN store_results
                 THEN /\ formatted_results[i].distance = store_results.distances[i]
                      /\ formatted_results[i].distance >= 0
                 ELSE formatted_results[i].distance = None

\* Three hits with their distances, the second farther than the first.
C21_Witness ==
    /\ Formatted
    /\ Len(formatted_results) = DefaultNResults
    /\ "distances" \in DOMAIN store_results
    /\ formatted_results[1].distance < formatted_results[2].distance

\* ------------------------------- more properties of process_documents

\* The latest process_documents call has called collection.add.
AddCalled == RanWithDocs /\ result # "embed_error"

\* The positions of the add call whose metadata names the file f.
RecordsOf(call, f) == {k \in 1 .. Len(call.metadatas) : call.metadatas[k].source = f}

\* C22: the records process_documents passes to the collection are
\* consistent: the four lists are equally long, every record belongs to a
\* '.txt' file of the directory, and the records of a file with chunks
\* c_0 .. c_(n-1) are n records next to each other, the i-th with the id
\* '{name}_{i}' (name the file name without '.txt'), the text c_i, the
\* embedding of c_i and the metadata (source the file name, chunk i).
C22_RecordsConsistent ==
    AddCalled =>
        LET call == trace[2]
            files == {f \in DOMAIN last.docs : EndsWithTxt(f)}
        IN  /\ Len(call.ids) = Len(call.documents)
            /\ Len(call.ids) = Len(call.embeddings)
            /\ Len(call.ids) = Len(call.metadatas)
            /\ \A k \in 1 .. Len(call.metadatas) : call.metadatas[k].source \in files
            /\ \A f \in files :
                  LET cs == chunk_text(last.docs[f], DefaultChunkSize, DefaultOverlap)
                  IN  \E base \in 0 .. Len(call.ids) :
                        /\ RecordsOf(call, f) = base + 1 .. base + Len(cs)
                        /\ \A j \in 1 .. Len(cs) :
                              /\ call.ids[base + j] = ChunkId(f, j - 1)
                              /\ call.documents[base + j] = cs[j]
                              /\ call.embeddings[base + j] = Encode(cs[j])
                              /\ call.metadatas[base + j] = [source |-> f, chunk |-> j - 1]

\* Two files passed in one add call, four records with different
\* embeddings among them.
C22_Witness ==
    /\ AddCalled /\ result = "ok"
    /\ Cardinality({f \in DOMAIN last.docs : EndsWithTxt(f)}) = 2
    /\ Len(trace[2].ids) >= 3
    /\ trace[2].embeddings[1] # trace[2].embeddings[Len(trace[2].ids)]

\* ------------------------------------------------ properties of main.py

\* main.py, started without --setup, has gone as far as it goes.
MainSettled == cpc \notin {"idle", "start", "engines"} /\ ~args_setup

\* C23: main without --setup enters the interactive loop if and only if
\* the check of the LLM backend succeeds and count() is greater than 0, and
\* it issues no query when count() is 0.
C23_LoopIffReady ==
    MainSettled =>
        /\ (cpc = "loop") <=> (backend /\ Count(store) > 0)
        /\ Count(store) = 0 => q = NoQuery

\* ------------------------------------- properties of run_swift_setup.py

\* The file f of the Swift scraper's output directory has its records in
\* the collection: one per chunk, with the chunk's text and the file as
\* source.
SwiftIngested(f) ==
    LET cs == chunk_text(swift_docs[f], DefaultChunkSize, DefaultOverlap)
    IN  \A i \in 1 .. Len(cs) :
            \E id \in DOMAIN store :
                /\ store[id].text = cs[i]
                /\ store[id].metadata = [source |-> f, chunk |-> i - 1]

\* C24: after run_swift_setup's main has completed successfully, every
\* text file of the Swift scraper's output directory has been chunked and
\* its records are in the collection.
C24_SwiftDocsIngested ==
    spc = "complete" => \A f \in DOMAIN swift_docs : SwiftIngested(f)

\* ------------------------------------------ more properties of chunk_text

\* Decomposes with at least one paragraph, carried or new, in every chunk.
RECURSIVE DecomposesNonEmpty(_, _)
DecomposesNonEmpty(k, lo) ==
    IF k > Len(chunks) THEN lo = Len(Paragraphs) + 1
    ELSE \E carry \in {0, 1} : \E hi \in (lo - 1) .. Len(Paragraphs) :
            /\ carry = 1 => (k > 1 /\ overlap > 0 /\ lo > 1)
            /\ hi - (lo - carry) + 1 >= 1
            /\ chunks[k] = Join(SubSeq(Paragraphs, lo - carry, hi))
            /\ DecomposesNonEmpty(k + 1, hi + 1)

\* C25: every chunk chunk_text returns is built from at least one
\* paragraph of the text; no chunk is the join of an empty buffer.
C25_NoChunkFromEmptyBuffer == Returned => DecomposesNonEmpty(1, 1)

\* Decomposes where a chunk carries a paragraph over only from a chunk,
\* the one before it, that took that paragraph as a new one (fresh tells
\* whether the chunk before chunk k took a new paragraph).  Every paragraph
\* occurrence is then new in one chunk and carried into at most the next.
RECURSIVE DecomposesOnce(_, _, _)
DecomposesOnce(k, lo, fresh) ==
    IF k > Len(chunks) THEN lo = Len(Paragraphs) + 1
    ELSE \E carry \in {0, 1} : \E hi \in (lo - 1) .. Len(Paragraphs) :
            /\ carry = 1 => (k > 1 /\ overlap > 0 /\ lo > 1 /\ fresh)
            /\ chunks[k] = Join(SubSeq(Paragraphs, lo - carry, hi))
            /\ DecomposesOnce(k + 1, hi + 1, hi >= lo)

\* C26: with overlap > 0 every paragraph occurrence of the text is in at
\* most two chunks, and if in two then as the last paragraph of one and the
\* first of the next; with overlap = 0 it is in exactly one chunk.
C26_AtMostTwoChunks == Returned => DecomposesOnce(1, 1, FALSE)

\* Three chunks, the second starting with the last paragraph of the first
\* and ending with the first paragraph of the third.
C26_Witness ==
    /\ Returned /\ overlap > 0 /\ Len(chunks) = 3
    /\ Len(Split(chunks[2])) = 2
    /\ Split(chunks[2])[1] = Last(Split(chunks[1]))
    /\ Split(chunks[3])[1] = Last(Split(chunks[2]))
    /\ Split(chunks[2])[1] # Split(chunks[2])[2]

C28_NeverShrinks ==
    [][/\ Count(store') >= Count(store)
       /\ DOMAIN store \subseteq DOMAIN store'
       /\ (op' = "query") => (store' = store)]_vars

\* After a re-ingestion the collection still holds a record of a chunk
\* that a file of the directory no longer yields, and a query has run.
C28_Witness ==
    /\ op = "query" /\ q # NoQuery /\ q.result = "ok"
    /\ last # None /\ last.result = "ok"
    /\ \E id \in DOMAIN store :
          /\ id \notin Range(last.ids)
          /\ store[id].metadata.source \in DOMAIN last.docs

====
